---- MODULE Spec2Model ----
(***************************************************************************)
(* Pbd, the PocketBase client wrapper of src/mod.ts: the local guard of    *)
(* each method, the call it delegates to the client, and the then/catch    *)
(* handlers that turn the client's outcome into the caller's outcome.      *)
(*                                                                         *)
(* The PocketBase client itself is an external library.  Its requests are  *)
(* modelled by their outcome (a value or an error, chosen freely) and its  *)
(* authStore by the contract of spec section 6 (StoreSave, StoreClear).    *)
(***************************************************************************)
EXTENDS Integers, FiniteSets, Sequences, TLC

\* ------------------------------------------------------------------ bounds
MaxLen == 2     \* largest list length / totalItems the remote reports
MaxVal == 2     \* distinct records / strings the remote returns
MaxErr == 2     \* distinct ClientResponseError objects
MaxToken == 2   \* distinct auth tokens the remote issues

\* ------------------------------------------------------------------ values
\* Every value has the same three fields so that any two can be compared.
V(k, x, y) == [kind |-> k, a |-> x, b |-> y]

Null == V("null", 0, 0)
False == V("bool", 0, 0)
True == V("bool", 1, 0)

\* Errors created by the wrapper itself (new Error(...) in mod.ts).
AdminOperationError == V("errAdmin", 0, 0)
ProtectedOperationError == V("errUser", 0, 0)
NoItemsFoundError == V("errEmpty", 0, 0)
NotAnArrayError == V("errNotArray", 0, 0)

LocalErrors ==
    {AdminOperationError, ProtectedOperationError, NoItemsFoundError,
     NotAnArrayError}

\* Errors raised by the client (ClientResponseError), told apart by identity.
RemoteErrors == {V("err", i, 0) : i \in 1..MaxErr}

Return(v) == [how |-> "return", v |-> v]
Throw(e) == [how |-> "throw", v |-> e]
NoOutcome == [how |-> "none", v |-> Null]

\* ------------------------------------------------------------- the catalog
\* Methods whose body starts with the authStore.isAdmin check.
AdminGuarded ==
    {"listBackups", "createBackup", "uploadBackup", "deleteBackup",
     "restoreBackup", "downloadBackup", "getLogList", "getOneLog",
     "getLogStats", "getAllSettings", "updateSettings", "testS3",
     "testEmail", "generateAppleClientSecret", "getCollectionList",
     "getCollectionFullList", "getCollectionFirstListItem",
     "getOneCollection", "createCollection", "updateCollection",
     "deleteCollection", "importCollections", "adminAuthRefresh",
     "adminGetList", "adminGetFullList", "adminGetFirstListItem",
     "adminView", "adminCreate", "adminUpdate", "adminDelete"}

\* Methods whose body starts with the authStore.isValid check.
UserGuarded ==
    {"requestEmailChange", "listExternalAuth", "unlinkExternalAuth",
     "getFileToken"}

\* Methods without any check.
Unguarded ==
    {"authWithPassword", "authWithOAuth2", "authRefresh",
     "requestVerification", "confirmVerification", "requestPasswordReset",
     "confirmPasswordReset", "confirmEmailChange", "listAuthMethods",
     "getList", "getFullList", "getFirstListItem", "getOne", "create",
     "update", "delete", "getHealth", "adminAuthWithPassword",
     "adminRequestPasswordReset", "adminConfirmPasswordReset"}

\* Synchronous methods: no promise, no then/catch.
SyncOps == {"authClear", "fileGetUrl", "downloadBackup"}

AsyncOps == (AdminGuarded \cup UserGuarded \cup Unguarded) \ SyncOps

AllOps == AsyncOps \cup SyncOps

\* Methods declared to return Promise<boolean>.
BooleanReturning ==
    {"requestVerification", "confirmVerification", "requestPasswordReset",
     "confirmPasswordReset", "requestEmailChange", "confirmEmailChange",
     "unlinkExternalAuth", "delete", "createBackup", "uploadBackup",
     "deleteBackup", "restoreBackup", "testS3", "testEmail",
     "deleteCollection", "importCollections", "adminRequestPasswordReset",
     "adminConfirmPasswordReset", "adminDelete"}

\* Methods whose catch handler has `return false` (all others: return null).
CatchReturnsFalse ==
    {"requestVerification", "confirmVerification", "requestPasswordReset",
     "confirmPasswordReset", "requestEmailChange", "confirmEmailChange",
     "unlinkExternalAuth", "delete", "createBackup", "uploadBackup",
     "deleteBackup", "restoreBackup", "testS3", "testEmail",
     "deleteCollection", "importCollections", "adminRequestPasswordReset",
     "adminConfirmPasswordReset", "adminDelete"}

\* Methods resolving to a ListResult (a page with totalItems and items).
PageOps == {"getList", "getLogList", "getCollectionList", "adminGetList"}

\* Methods resolving to an array.
ListOps ==
    {"getFullList", "listExternalAuth", "listBackups", "getLogStats",
     "getCollectionFullList", "adminGetFullList"}

\* Methods whose client call authenticates a record of an auth collection.
RecordAuthOps == {"authWithPassword", "authWithOAuth2", "authRefresh"}

\* Methods whose client call authenticates an admin.
AdminAuthOps == {"adminAuthWithPassword", "adminAuthRefresh"}

\* What the client's promise can resolve to, per method.
ClientResults(op) ==
    IF op \in RecordAuthOps THEN {V("auth", t, 0) : t \in 1..MaxToken}
    ELSE IF op \in AdminAuthOps THEN {V("auth", t, 1) : t \in 1..MaxToken}
    ELSE IF op \in BooleanReturning THEN {False, True}
    ELSE IF op \in PageOps
        THEN UNION {{V("page", t, n) : n \in 0..t} : t \in 0..MaxLen}
    ELSE IF op = "listBackups"
        THEN {V("list", n, 0) : n \in 0..MaxLen} \cup {V("other", 0, 0)}
    ELSE IF op \in ListOps THEN {V("list", n, 0) : n \in 0..MaxLen}
    ELSE IF op = "getFileToken" THEN {V("str", i, 0) : i \in 1..MaxVal}
    ELSE {V("rec", i, 0) : i \in 1..MaxVal}

\* Outcomes of the client's promise: fulfilled with a result or rejected.
ClientOutcomes(op) ==
    {Return(r) : r \in ClientResults(op)} \cup {Throw(e) : e \in RemoteErrors}

\* Outcomes of the client's synchronous URL builders.
UrlOutcomes ==
    {Return(V("str", i, 0)) : i \in 1..MaxVal}
    \cup {Throw(e) : e \in RemoteErrors}

\* ----------------------------------------------------- the client authStore
EmptyStore == [token |-> 0, isValid |-> FALSE, isAdmin |-> FALSE, model |-> 0]

\* authStore.clear()
StoreClear(store) == EmptyStore

\* The client saves the token and model of a successful auth response.
StoreSave(store, resp) ==
    [token |-> resp.a, isValid |-> TRUE, isAdmin |-> (resp.b = 1),
     model |-> resp.a]

StoreAfter_KeepsFirst(store, op, remote) ==
    IF op \in (RecordAuthOps \cup AdminAuthOps) /\ remote.how = "return"
        /\ ~store.isValid
    THEN StoreSave(store, remote.v)
    ELSE store

StoreAfter_ClearsOnFailure(store, op, remote) ==
    IF op \in (RecordAuthOps \cup AdminAuthOps)
    THEN IF remote.how = "return" THEN StoreSave(store, remote.v)
         ELSE StoreClear(store)
    ELSE store

\* The authStore after the client's promise of `op` settled with `remote`.
StoreAfter(store, op, remote) ==
    IF op \in (RecordAuthOps \cup AdminAuthOps) /\ remote.how = "return"
    THEN StoreSave(store, remote.v)
    ELSE store

\* ---------------------------------------------------------- the constructor
Tri == {"absent", "false", "true"}

OptionBags ==
    [unauthorized_errors : Tri, return_empty_on_error : Tri,
     return_null_on_error : Tri]

\* `if (!options.x) options.x = false`
Falsy(x) == x # "true"

CtorUnauthorizedErrors_DefaultsTrue(opts) ==
    IF opts.unauthorized_errors = "false" THEN FALSE ELSE TRUE

CtorUnauthorizedErrors(opts) ==
    IF Falsy(opts.unauthorized_errors) THEN FALSE ELSE TRUE

CtorReturnNullOnError(opts) ==
    IF Falsy(opts.return_empty_on_error) THEN FALSE ELSE TRUE

\* The options object after the constructor ran (it assigns the defaults).
CtorOptions(opts) ==
    [opts EXCEPT
        !.unauthorized_errors =
            IF Falsy(opts.unauthorized_errors) THEN "false" ELSE @,
        !.return_empty_on_error =
            IF Falsy(opts.return_empty_on_error) THEN "false" ELSE @]

\* ------------------------------------------------------------------ guards
GuardRejects_Never(op, store, ue) == FALSE

GuardRejects_Always(op, store, ue) ==
    \/ op \in AdminGuarded /\ ~store.isAdmin
    \/ op \in UserGuarded /\ ~store.isValid

GuardRejects_AdminNeedsValid(op, store, ue) ==
    \/ ue /\ op \in AdminGuarded /\ ~(store.isAdmin /\ store.isValid)
    \/ ue /\ op \in UserGuarded /\ ~store.isValid

GuardRejects_Everything(op, store, ue) == ue /\ ~store.isValid

GuardRejects_UserNeedsAdmin(op, store, ue) ==
    \/ ue /\ op \in AdminGuarded /\ ~store.isAdmin
    \/ ue /\ op \in UserGuarded /\ ~store.isAdmin

\* `if (this.unauthorized_errors && !this.client.authStore.isX) throw ...`
GuardRejects(op, store, ue) ==
    \/ ue /\ op \in AdminGuarded /\ ~store.isAdmin
    \/ ue /\ op \in UserGuarded /\ ~store.isValid

\* The error the guard throws.
GuardError(op) ==
    IF op \in AdminGuarded THEN AdminOperationError
    ELSE ProtectedOperationError

GuardEffect_ClearsOnReject(op, store, ue) ==
    IF (op \in AdminGuarded /\ ~store.isAdmin)
        \/ (op \in UserGuarded /\ ~store.isValid)
    THEN StoreClear(store)
    ELSE store

\* The authStore after the guard statement: the guard reads isAdmin /
\* isValid and assigns nothing.
GuardEffect(op, store, ue) == store

\* The guard's throw stands before the promise chain: no catch handler sees
\* it, whatever return_null_on_error is.
GuardOutcome(op, sup) == Throw(GuardError(op))

\* console.warn calls on the way to the client call: the methods have none.
GuardWarns(op, store, ue) == FALSE

\* ---------------------------------------------------------------- handlers
OnRejected_Rethrows(op, err, sup) == Throw(err)

OnRejected_ReturnsEmptyList(op, err, sup) ==
    IF sup THEN Return(V("list", 0, 0)) ELSE Throw(err)

OnRejected_Wraps(op, err, sup) ==
    IF sup
    THEN Return(IF op \in CatchReturnsFalse THEN False ELSE Null)
    ELSE Throw(GuardError(op))

\* .catch((err) => { if (this.return_null_on_error) return S; throw err; })
OnRejected(op, err, sup) ==
    IF sup
    THEN Return(IF op \in CatchReturnsFalse THEN False ELSE Null)
    ELSE Throw(err)

OnFulfilled_ChecksItems(op, res, sup) ==
    IF op = "getList" /\ res.b = 0
    THEN IF sup THEN Return(Null) ELSE Throw(NoItemsFoundError)
    ELSE IF op = "getFullList" /\ res.a = 0
    THEN IF sup THEN Return(Null) ELSE Throw(NoItemsFoundError)
    ELSE IF op = "listBackups" /\ res.kind # "list"
    THEN Throw(NotAnArrayError)
    ELSE Return(res)

OnFulfilled_EmptyCheckEverywhere(op, res, sup) ==
    IF res.kind \in {"page", "list"} /\ res.a = 0
    THEN IF sup THEN Return(Null) ELSE Throw(NoItemsFoundError)
    ELSE IF op = "listBackups" /\ res.kind # "list"
    THEN Throw(NotAnArrayError)
    ELSE Return(res)

OnFulfilled_DropsItems(op, res, sup) ==
    IF op \in {"getList", "getFullList"} /\ res.a = 0
    THEN IF sup THEN Return(Null) ELSE Throw(NoItemsFoundError)
    ELSE IF op = "listBackups" /\ res.kind # "list"
    THEN Throw(NotAnArrayError)
    ELSE IF op \in PageOps THEN Return(V("page", res.a, 0))
    ELSE Return(res)

OnFulfilled_NoEmptyCheck(op, res, sup) ==
    IF op = "listBackups" /\ res.kind # "list" THEN Throw(NotAnArrayError)
    ELSE Return(res)

\* .then((res) => { ... return res; })
OnFulfilled(op, res, sup) ==
    IF op = "getList" /\ res.a = 0
    THEN IF sup THEN Return(Null) ELSE Throw(NoItemsFoundError)
    ELSE IF op = "getFullList" /\ res.a = 0
    THEN IF sup THEN Return(Null) ELSE Throw(NoItemsFoundError)
    ELSE IF op = "listBackups" /\ res.kind # "list"
    THEN Throw(NotAnArrayError)
    ELSE Return(res)

RequestsInCatch_RetriesOnce(op, err, sup) == 1

\* Client requests issued by the catch handler: it returns or throws, it
\* calls nothing.
RequestsInCatch(op, err, sup) == 0

\* Client requests issued by the whole then/catch chain.
RequestsInChain(op, remote, sup) ==
    IF remote.how = "throw"
    THEN RequestsInCatch(op, remote.v, sup)
    ELSE LET t == OnFulfilled(op, remote.v, sup)
         IN IF t.how = "throw" THEN RequestsInCatch(op, t.v, sup) ELSE 0

\* promise.then(onFulfilled).catch(onRejected): an error thrown inside the
\* then handler reaches the catch handler too.
Normalize(op, remote, sup) ==
    IF remote.how = "throw"
    THEN OnRejected(op, remote.v, sup)
    ELSE LET t == OnFulfilled(op, remote.v, sup)
         IN IF t.how = "throw" THEN OnRejected(op, t.v, sup) ELSE t

AuthClearEffect_Forgets(store) == store

AuthClearEffect_StepsDown(store) ==
    IF store.isAdmin THEN [store EXCEPT !.isAdmin = FALSE]
    ELSE StoreClear(store)

\* authClear(): this.client.authStore.clear()
AuthClearEffect(store) == StoreClear(store)

SyncOutcome_Suppresses(u, sup) ==
    IF sup /\ u.how = "throw" THEN Return(Null) ELSE u

\* return this.client.<service>.<urlBuilder>(...): no then, no catch.
SyncOutcome(u, sup) == u

\* -------------------------------------------------------------- extensions
EmptyString == V("str", 0, 0)

\* `Authorization: ${token}`
AuthorizationHeader(token) == V("authorization", token, 0)

getJwtHeader_NoValidityCheck(store) == AuthorizationHeader(store.token)

\* getJwtHeader: "" unless the authStore is valid.
getJwtHeader(store) ==
    IF ~store.isValid THEN EmptyString
    ELSE AuthorizationHeader(store.token)

\* The backupName option of a cron job: a name with b = 1 is written with
\* upper-case letters; name 0 is "auto".
NoName == V("undefined", 0, 0)
AutoName == V("name", 0, 0)
JobNames ==
    {NoName} \cup {V("name", i, c) : i \in 0..MaxVal, c \in {0, 1}}

\* TypeError: reading a property of undefined.
TypeError == V("errType", 0, 0)

toLowerCase(n) == V("name", n.a, 0)

\* `${options.backupName}.zip`
ZipName(n) == V("zip", n.a, n.b)

\* `auto-${year}-${month}-...-${seconds}.zip`.  b = 0: every field is a
\* number, the documented auto-YYYY-MM-DD-HH-MM-SS.zip.  b = 1: the month
\* field holds the text of the function Date.prototype.getMonth.
AutoStampName == V("autoStamp", 0, 0)
AutoStampNameWithFunctionText == V("autoStamp", 0, 1)

\* The name the cron handler passes to createBackup (backupName given).
CronBackupName(job) ==
    IF toLowerCase(job) = AutoName THEN AutoStampNameWithFunctionText
    ELSE ZipName(job)

\* ------------------------------------------------------------------- state
VARIABLES
    supplied,              \* the options the caller passed to new Pbd(...)
    options,               \* the same object after the constructor ran
    unauthorized_errors,   \* Pbd.unauthorized_errors
    return_null_on_error,  \* Pbd.return_null_on_error
    authStore,             \* Pbd.client.authStore
    call,                  \* the caller's current (or last) method call
    authed,                \* history: authWithPassword succeeded, no
                           \* authClear since
    prevClear,             \* history: the call before `call` was authClear
    inflight,              \* calls of two callers that do not await each
                           \* other, one record per caller
    last                   \* history: who wrote the session most recently

vars ==
    <<supplied, options, unauthorized_errors, return_null_on_error,
      authStore, call, authed, prevClear, inflight, last>>

config == <<supplied, options, unauthorized_errors, return_null_on_error>>

\* What the sequential caller's actions leave alone.
race == <<inflight, last>>

\* What the concurrent callers' actions leave alone.
sequential == <<call, authed, prevClear>>

\* call.pre     the authStore when the method was invoked
\* call.calls   how many client operations the method invoked
\* call.requests how many of them are requests to the PocketBase server
\* call.remote  the outcome of the client's request (promise)
\* call.url     the outcome of the client's synchronous URL builder
\* call.out     what the caller got
\* call.warned  whether the method wrote a warning to the console
\* call.arg     the backup name handed to createBackup by a cron job
\* call.job     the backupName option of the cron job that made the call
NoCall ==
    [op |-> "none", phase |-> "idle", pre |-> EmptyStore, calls |-> 0,
     requests |-> 0, remote |-> NoOutcome, url |-> NoOutcome,
     out |-> NoOutcome, warned |-> FALSE, arg |-> Null, job |-> Null]

\* The two callers of the concurrent specification.
Callers == {"a", "b"}

Other(c) == IF c = "a" THEN "b" ELSE "a"

\* flight.after    the other caller's call was in flight when this one was
\*                 invoked
\* flight.subject  the record id the method read from authStore.model and
\*                 sent with the request
NoFlight ==
    [op |-> "none", phase |-> "idle", pre |-> EmptyStore, calls |-> 0,
     subject |-> 0, remote |-> NoOutcome, out |-> NoOutcome,
     after |-> FALSE]

NoFlights == [c \in Callers |-> NoFlight]

Init ==
    /\ supplied \in OptionBags
    /\ options = CtorOptions(supplied)
    /\ unauthorized_errors = CtorUnauthorizedErrors(supplied)
    /\ return_null_on_error = CtorReturnNullOnError(supplied)
    /\ authStore = EmptyStore
    /\ call = NoCall
    /\ authed = FALSE
    /\ prevClear = FALSE
    /\ inflight = NoFlights
    /\ last = "none"

\* The caller awaits each call before making the next one.
Idle == call.phase # "pending"

WasClear == call.op = "authClear" /\ call.phase = "done"

\* An async method up to its first suspension: the guard, then the client call.
Invoke(op) ==
    /\ Idle
    /\ op \in AsyncOps
    /\ IF GuardRejects(op, authStore, unauthorized_errors)
       THEN call' = [NoCall EXCEPT !.op = op, !.phase = "done",
                        !.pre = authStore,
                        !.out = GuardOutcome(op, return_null_on_error)]
       ELSE call' = [NoCall EXCEPT !.op = op, !.phase = "pending",
                        !.pre = authStore, !.calls = 1, !.requests = 1,
                        !.warned = GuardWarns(op, authStore,
                                              unauthorized_errors)]
    /\ authStore' = GuardEffect(op, authStore, unauthorized_errors)
    /\ prevClear' = WasClear
    /\ UNCHANGED <<config, authed, race>>

\* One firing of a job registered by setupCronjobBackup: the handler picks
\* the backup name and awaits Pbd.createBackup(name).
CronFire ==
    /\ Idle
    /\ \E job \in JobNames :
          IF job = NoName
          THEN /\ call' = [NoCall EXCEPT !.op = "setupCronjobBackup",
                              !.phase = "done", !.pre = authStore,
                              !.job = job, !.out = Throw(TypeError)]
               /\ authStore' = authStore
          ELSE /\ authStore' = GuardEffect("createBackup", authStore,
                                           unauthorized_errors)
               /\ IF GuardRejects("createBackup", authStore,
                                  unauthorized_errors)
                  THEN call' = [NoCall EXCEPT !.op = "createBackup",
                                  !.phase = "done", !.pre = authStore,
                                  !.job = job, !.arg = CronBackupName(job),
                                  !.out = GuardOutcome("createBackup",
                                                   return_null_on_error)]
                  ELSE call' = [NoCall EXCEPT !.op = "createBackup",
                                  !.phase = "pending", !.pre = authStore,
                                  !.calls = 1, !.requests = 1, !.job = job,
                                  !.arg = CronBackupName(job),
                                  !.warned = GuardWarns("createBackup",
                                      authStore, unauthorized_errors)]
    /\ prevClear' = WasClear
    /\ UNCHANGED <<config, authed, race>>

\* PbdExt.auth.getJwtHeader(pbd)
GetJwtHeader ==
    /\ Idle
    /\ call' = [NoCall EXCEPT !.op = "getJwtHeader", !.phase = "done",
                   !.pre = authStore, !.out = Return(getJwtHeader(authStore))]
    /\ prevClear' = WasClear
    /\ UNCHANGED <<config, authStore, authed, race>>

\* The client's promise settles; the then/catch chain produces the result.
Settle ==
    /\ call.phase = "pending"
    /\ \E remote \in ClientOutcomes(call.op) :
        /\ call' = [call EXCEPT !.phase = "done", !.remote = remote,
                       !.requests = @ + RequestsInChain(call.op, remote,
                                            return_null_on_error),
                       !.out = Normalize(call.op, remote,
                                         return_null_on_error)]
        /\ authStore' = StoreAfter(authStore, call.op, remote)
        /\ authed' = IF call.op = "authWithPassword" /\ remote.how = "return"
                     THEN TRUE ELSE authed
    /\ UNCHANGED <<config, prevClear, race>>

AuthClear ==
    /\ Idle
    /\ authStore' = AuthClearEffect(authStore)
    /\ call' = [NoCall EXCEPT !.op = "authClear", !.phase = "done",
                   !.pre = authStore, !.calls = 1, !.out = Return(Null)]
    /\ authed' = FALSE
    /\ prevClear' = WasClear
    /\ UNCHANGED <<config, race>>

\* downloadBackup(): the guard, then client.backups.getDownloadUrl(...).
DownloadBackup ==
    /\ Idle
    /\ IF GuardRejects("downloadBackup", authStore, unauthorized_errors)
       THEN call' = [NoCall EXCEPT !.op = "downloadBackup", !.phase = "done",
                        !.pre = authStore,
                        !.out = GuardOutcome("downloadBackup",
                                           return_null_on_error)]
       ELSE \E u \in UrlOutcomes :
               call' = [NoCall EXCEPT !.op = "downloadBackup",
                           !.phase = "done", !.pre = authStore, !.calls = 1,
                           !.url = u,
                           !.out = SyncOutcome(u, return_null_on_error),
                           !.warned = GuardWarns("downloadBackup", authStore,
                                                 unauthorized_errors)]
    /\ authStore' = GuardEffect("downloadBackup", authStore,
                                unauthorized_errors)
    /\ prevClear' = WasClear
    /\ UNCHANGED <<config, authed, race>>

\* fileGetUrl(): client.files.getUrl(<the promise of getOne>, filename, ...).
\* The getOne request is issued and its promise is handed over as the
\* record, never awaited: its outcome is seen by nobody.
FileGetUrl ==
    /\ Idle
    /\ \E r \in ClientOutcomes("getOne"), u \in UrlOutcomes :
          call' = [NoCall EXCEPT !.op = "fileGetUrl", !.phase = "done",
                      !.pre = authStore, !.calls = 2, !.requests = 1,
                      !.remote = r,
                      !.url = u,
                      !.out = SyncOutcome(u, return_null_on_error)]
    /\ prevClear' = WasClear
    /\ UNCHANGED <<config, authStore, authed, race>>

Next ==
    \/ \E op \in AsyncOps : Invoke(op)
    \/ Settle
    \/ AuthClear
    \/ DownloadBackup
    \/ FileGetUrl
    \/ CronFire
    \/ GetJwtHeader

Spec == Init /\ [][Next]_vars

\* ------------------------------------------------- any session, one call
\* The sessions the guard can be handed: the two flags are separate
\* properties of the authStore, every combination is an input.
Sessions ==
    {EmptyStore}
    \cup {[token |-> t, isValid |-> v, isAdmin |-> a, model |-> t] :
            t \in 1..MaxToken, v \in BOOLEAN, a \in BOOLEAN}

\* A Pbd constructed around a client whose authStore holds any session.
InitAnySession ==
    /\ supplied \in OptionBags
    /\ options = CtorOptions(supplied)
    /\ unauthorized_errors = CtorUnauthorizedErrors(supplied)
    /\ return_null_on_error = CtorReturnNullOnError(supplied)
    /\ authStore \in Sessions
    /\ call = NoCall
    /\ authed = FALSE
    /\ prevClear = FALSE
    /\ inflight = NoFlights
    /\ last = "none"

\* The guarded methods.
NextGuarded ==
    \/ \E op \in AdminGuarded \cup UserGuarded : Invoke(op)
    \/ Settle
    \/ DownloadBackup

SpecGuard == InitAnySession /\ [][NextGuarded]_vars

\* ------------------------------------------------------ concurrent callers
\* The methods the two callers use: the two authenticate calls and a
\* protected operation.
RaceOps == {"authWithPassword", "adminAuthWithPassword", "listExternalAuth"}

\* this.client.authStore.model?.id, evaluated with the call's arguments.
SubjectSent(store) == store.model

SettleOutcome_RechecksGuard(op, store, remote, ue, sup) ==
    IF GuardRejects(op, store, ue) THEN GuardOutcome(op, sup)
    ELSE Normalize(op, remote, sup)

\* What the caller gets when the client's promise settles: the then/catch
\* chain reads the response and return_null_on_error, never the authStore.
SettleOutcome(op, store, remote, ue, sup) == Normalize(op, remote, sup)

\* Caller c invokes op: the guard and the arguments of the client call are
\* evaluated in one synchronous run, up to the await.
RaceInvoke(c, op) ==
    /\ inflight[c].phase # "pending"
    /\ op \in RaceOps
    /\ LET o == Other(c)
           mine ==
               IF GuardRejects(op, authStore, unauthorized_errors)
               THEN [NoFlight EXCEPT !.op = op, !.phase = "done",
                        !.pre = authStore,
                        !.out = GuardOutcome(op, return_null_on_error),
                        !.after = inflight[o].phase = "pending"]
               ELSE [NoFlight EXCEPT !.op = op, !.phase = "pending",
                        !.pre = authStore, !.calls = 1,
                        !.subject = SubjectSent(authStore),
                        !.after = inflight[o].phase = "pending"]
           theirs ==
               IF inflight[o].phase = "pending" THEN inflight[o]
               ELSE [inflight[o] EXCEPT !.after = FALSE]
       IN inflight' = [inflight EXCEPT ![c] = mine, ![o] = theirs]
    /\ authStore' = GuardEffect(op, authStore, unauthorized_errors)
    /\ UNCHANGED <<config, last, sequential>>

\* The client's promise of caller c settles: the client saves a successful
\* auth response, then the method's then/catch chain runs.
RaceSettle(c) ==
    /\ inflight[c].phase = "pending"
    /\ \E remote \in ClientOutcomes(inflight[c].op) :
        /\ authStore' = StoreAfter(authStore, inflight[c].op, remote)
        /\ inflight' =
              [inflight EXCEPT ![c] =
                  [@ EXCEPT !.phase = "done", !.remote = remote,
                      !.out = SettleOutcome(inflight[c].op, authStore',
                                            remote, unauthorized_errors,
                                            return_null_on_error)]]
        /\ last' = IF authStore' # authStore \/ (inflight[c].op
                        \in (RecordAuthOps \cup AdminAuthOps)
                        /\ remote.how = "return")
                   THEN c ELSE last
    /\ UNCHANGED <<config, sequential>>

\* authClear() by either caller, whatever is in flight.
RaceAuthClear ==
    /\ authStore' = AuthClearEffect(authStore)
    /\ last' = "clear"
    /\ UNCHANGED <<config, inflight, sequential>>

NextRace ==
    \/ \E c \in Callers, op \in RaceOps : RaceInvoke(c, op)
    \/ \E c \in Callers : RaceSettle(c)
    \/ RaceAuthClear

SpecRace == Init /\ [][NextRace]_vars

\* ------------------------------------------------------------------ claims
\* The operations the documentation calls admin-level: backups, logs,
\* settings, S3/email tests, Apple client secret, collection management,
\* admin-account management, adminAuthRefresh.
AdminLevelOps ==
    {"listBackups", "createBackup", "uploadBackup", "deleteBackup",
     "restoreBackup", "downloadBackup"}
    \cup {"getLogList", "getOneLog", "getLogStats"}
    \cup {"getAllSettings", "updateSettings", "testS3", "testEmail",
          "generateAppleClientSecret"}
    \cup {"getCollectionList", "getCollectionFullList",
          "getCollectionFirstListItem", "getOneCollection",
          "createCollection", "updateCollection", "deleteCollection",
          "importCollections"}
    \cup {"adminGetList", "adminGetFullList", "adminGetFirstListItem",
          "adminView", "adminCreate", "adminUpdate", "adminDelete"}
    \cup {"adminAuthRefresh"}

\* The operations the documentation says need user credentials.
UserLevelOps ==
    {"requestEmailChange", "listExternalAuth", "unlinkExternalAuth",
     "getFileToken", "authRefresh"}

Invoked == call.phase # "idle"

Done == call.phase = "done"

\* C1: an admin-level operation invoked while isAdmin is false and
\* unauthorized_errors is true fails with the local administrator-operation
\* error, and no client operation is invoked.
C1_AdminGuardRejects ==
    (Invoked /\ call.op \in AdminLevelOps /\ ~call.pre.isAdmin
        /\ unauthorized_errors)
    => /\ Done
       /\ call.out = Throw(AdminOperationError)
       /\ call.calls = 0
       /\ call.remote = NoOutcome
       /\ call.url = NoOutcome

\* C1 witness: a valid user session (not admin) was refused a backup listing.
C1_Witness ==
    /\ Done /\ call.op = "listBackups" /\ unauthorized_errors
    /\ call.pre.isValid /\ ~call.pre.isAdmin
    /\ call.out = Throw(AdminOperationError)

\* C2: an admin-level operation invoked while isAdmin is false and
\* unauthorized_errors is false still invokes the client operation.
C2_AdminGuardAdvisoryOnly ==
    (Invoked /\ call.op \in AdminLevelOps /\ ~call.pre.isAdmin
        /\ ~unauthorized_errors)
    => call.calls = 1

\* C2 witness: createBackup without admin rights reached the client, which
\* answered.
C2_Witness ==
    /\ Done /\ call.op = "createBackup" /\ ~call.pre.isAdmin
    /\ ~unauthorized_errors /\ call.calls = 1 /\ call.remote.how = "throw"

\* The sentinel the documentation declares: false for the methods returning
\* Promise<boolean>, null for the others.
DeclaredSentinel(op) == IF op \in BooleanReturning THEN False ELSE Null

\* C3 as stated: under suppression, every operation whose client call fails
\* yields its sentinel and does not raise.
C3_Original ==
    (Done /\ return_null_on_error
        /\ (call.remote.how = "throw" \/ call.url.how = "throw"))
    => call.out = Return(DeclaredSentinel(call.op))

\* C3 amended: under suppression, every asynchronous operation whose client
\* call fails resolves to its sentinel (false for boolean-returning methods,
\* null for the others) and does not raise.
C3_AsyncSuppression ==
    (Done /\ call.op \in AsyncOps /\ return_null_on_error
        /\ call.remote.how = "throw")
    => call.out = Return(DeclaredSentinel(call.op))

\* C3 witness: a failed delete resolved to false under suppression.
C3_Witness ==
    /\ Done /\ call.op = "delete" /\ return_null_on_error
    /\ call.remote.how = "throw" /\ call.out = Return(False)

\* C4: without suppression, an operation whose client request fails with
\* error e hands exactly e to the caller.
C4_ErrorIdentity ==
    /\ (Done /\ ~return_null_on_error /\ call.remote.how = "throw"
            /\ call.url.how # "throw")
        => call.out = Throw(call.remote.v)
    /\ (Done /\ ~return_null_on_error /\ call.url.how = "throw"
            /\ call.remote.how # "throw")
        => call.out = Throw(call.url.v)

\* C5: getList / getFullList on a collection the remote reports as empty
\* raises the no-items error without suppression and resolves to null with
\* it, whatever the session.
C5_EmptyListing ==
    (/\ Done
     /\ \/ call.op = "getList" /\ call.remote.how = "return"
            /\ call.remote.v.a = 0
        \/ call.op = "getFullList" /\ call.remote.how = "return"
            /\ call.remote.v.a = 0)
    => call.out = IF return_null_on_error THEN Return(Null)
                  ELSE Throw(NoItemsFoundError)

\* C5 witness: an authenticated session listed an empty collection and got
\* the no-items error.
C5_Witness ==
    /\ Done /\ call.op = "getList" /\ call.pre.isValid
    /\ call.remote = Return(V("page", 0, 0))
    /\ call.out = Throw(NoItemsFoundError)

\* C6: once authWithPassword has succeeded and until the next authClear, the
\* authStore is valid and every user-level operation passes the guard: the
\* client is called, nothing is rejected locally and nothing is warned.
C6_AuthenticatedPasses ==
    authed =>
        /\ authStore.isValid
        /\ (Invoked /\ call.op \in UserLevelOps)
            => /\ call.calls = 1
               /\ ~call.warned
               /\ call.out # Throw(ProtectedOperationError)
               /\ call.out # Throw(AdminOperationError)

\* C6 witness: after a successful authWithPassword, with unauthorized_errors
\* on, getFileToken reached the client and returned its token.
C6_Witness ==
    /\ authed /\ unauthorized_errors /\ ~authStore.isAdmin
    /\ Done /\ call.op = "getFileToken" /\ call.calls = 1
    /\ call.out.how = "return" /\ call.out.v.kind = "str"

\* C7: right after authClear the authStore is neither valid nor admin, and
\* authClear returned normally.
C7_ClearUnauthenticates ==
    (Done /\ call.op = "authClear")
    => /\ ~authStore.isValid
       /\ ~authStore.isAdmin
       /\ call.out.how = "return"

\* C7 witness: authClear was called on an admin session.
C7_Witness ==
    /\ Done /\ call.op = "authClear" /\ call.pre.isAdmin /\ call.pre.isValid
    /\ ~authStore.isValid

\* C8: the second of two authClear calls in a row leaves the authStore as the
\* first one left it.
C8_ClearIdempotent ==
    (Done /\ call.op = "authClear" /\ prevClear) => authStore = call.pre

\* C8 witness: authClear was called twice in a row.
C8_Witness ==
    /\ Done /\ call.op = "authClear" /\ prevClear /\ authStore = EmptyStore

\* C9: createBackup without admin rights, unauthorized_errors off and
\* suppression off, rejected by the remote with e: the caller gets e, an error
\* of the client, not one made by the wrapper.
C9_RemoteErrorReachesCaller ==
    (Done /\ call.op = "createBackup" /\ ~call.pre.isAdmin
        /\ ~unauthorized_errors /\ ~return_null_on_error
        /\ call.remote.how = "throw")
    => /\ call.out = Throw(call.remote.v)
       /\ call.out.v \in RemoteErrors
       /\ call.out.v \notin LocalErrors

\* C9 witness: that createBackup call, rejected by the remote.
C9_Witness ==
    /\ Done /\ call.op = "createBackup" /\ ~call.pre.isAdmin
    /\ ~unauthorized_errors /\ ~return_null_on_error
    /\ call.remote = Throw(V("err", 2, 0)) /\ call.out = call.remote

\* C10: a Pbd constructed with return_null_on_error: true resolves to null
\* when the request fails or (for getList) the collection is empty.
C10_DocumentedSettingSuppresses ==
    (Done /\ supplied.return_null_on_error = "true" /\ call.op = "getList"
        /\ (call.remote.how = "throw" \/ call.remote.v.a = 0))
    => call.out = Return(Null)

\* C11: with unauthorized_errors on and an authStore that is not valid, each
\* method needing user credentials (requestEmailChange, listExternalAuth,
\* unlinkExternalAuth, getFileToken, authRefresh) fails locally and invokes
\* no client operation.
C11_UserGuardRejects ==
    (Invoked /\ call.op \in UserLevelOps /\ ~call.pre.isValid
        /\ unauthorized_errors)
    => /\ Done
       /\ call.out = Throw(ProtectedOperationError)
       /\ call.calls = 0
       /\ call.remote = NoOutcome

\* C12: unauthorized_errors is true exactly when the option of that name was
\* supplied as true, return_null_on_error exactly when return_empty_on_error
\* was; with no option supplied both are false.
C12_ConstructorFlags ==
    /\ unauthorized_errors = (supplied.unauthorized_errors = "true")
    /\ return_null_on_error = (supplied.return_empty_on_error = "true")

\* C12 witness: a Pbd constructed with only a client has both flags off, and
\* one constructed with both options true has both on and acts on them.
C12_Witness ==
    /\ supplied.unauthorized_errors = "true"
    /\ supplied.return_empty_on_error = "true"
    /\ unauthorized_errors /\ return_null_on_error
    /\ Done /\ call.op = "getOne" /\ call.out = Return(Null)
    /\ call.remote.how = "throw"

EmptyListing ==
    /\ call.op \in {"getList", "getFullList"}
    /\ call.remote.how = "return"
    /\ call.remote.v.a = 0

\* listBackups got something that is not an array.
NotAnArray ==
    /\ call.op = "listBackups"
    /\ call.remote.how = "return"
    /\ call.remote.v.kind # "list"

\* Every client operation of the call succeeded.
ClientSucceeded ==
    \/ call.op \in AsyncOps /\ call.remote.how = "return"
    \/ call.op \in {"fileGetUrl", "downloadBackup"}
        /\ call.url.how = "return" /\ call.remote.how # "throw"
    \/ call.op = "authClear" /\ call.calls = 1

\* The value the client handed to the method.
ClientValue ==
    IF call.op \in AsyncOps THEN call.remote.v
    ELSE IF call.op = "authClear" THEN Null
    ELSE call.url.v

\* C14 as stated: on success of the client call (for getList / getFullList
\* a non-empty result) the operation resolves to the client's value.
C14_Original ==
    (Done /\ call.op \in AllOps /\ ClientSucceeded /\ ~EmptyListing)
    => call.out = Return(ClientValue)

\* C14 amended: on success of the client call, with a non-empty result for
\* getList / getFullList and an array for listBackups, the operation resolves
\* to exactly the client's value.
C14_SuccessUnchanged ==
    (Done /\ call.op \in AllOps /\ ClientSucceeded /\ ~EmptyListing
        /\ ~NotAnArray)
    => call.out = Return(ClientValue)

\* C14 witness: getList resolved to the page the client returned, items
\* included.
C14_Witness ==
    /\ Done /\ call.op = "getList" /\ call.remote = Return(V("page", 2, 2))
    /\ call.out = call.remote

\* C15: a cron job without a backup name creates auto-<date-time>.zip at each
\* firing; a job with a name other than "auto" calls createBackup with that
\* name followed by ".zip".
C15_CronBackupNames ==
    /\ (Invoked /\ call.job = NoName)
        => call.op = "createBackup" /\ call.arg = AutoStampName
    /\ (Invoked /\ call.job \in JobNames \ {NoName, AutoName})
        => call.op = "createBackup" /\ call.arg = ZipName(call.job)

\* The call was refused by the guard before any client operation.
RejectedLocally == call.calls = 0

\* The client failed, or its result is one the method turns into a failure.
Failed ==
    IF call.op \in AsyncOps
    THEN call.remote.how = "throw" \/ EmptyListing \/ NotAnArray
    ELSE call.url.how = "throw"

OutcomeIsValue ==
    /\ call.out = Return(ClientValue)
    /\ ClientSucceeded /\ ~EmptyListing /\ ~NotAnArray
    /\ ~(call.op \in {"fileGetUrl", "downloadBackup"}) \/ call.url.how = "return"

OutcomeIsValueOfUrlBuilder ==
    /\ call.op = "fileGetUrl"
    /\ call.url.how = "return" /\ call.remote.how = "throw"
    /\ call.out = call.url

OutcomeIsSentinel ==
    /\ call.out = Return(DeclaredSentinel(call.op))
    /\ call.op \in AsyncOps /\ return_null_on_error /\ Failed
    /\ ~RejectedLocally

OutcomeIsError ==
    /\ call.out.how = "throw"
    /\ \/ RejectedLocally
       \/ Failed /\ (~return_null_on_error \/ call.op \notin AsyncOps)

Count(b) == IF b THEN 1 ELSE 0

CheckFails ==
    \/ call.op \in AdminLevelOps /\ ~call.pre.isAdmin
    \/ call.op \in UserLevelOps \ {"authRefresh"} /\ ~call.pre.isValid

\* C17: when the check fails and unauthorized_errors is off, the method
\* writes a warning to the console and then invokes the client.
C17_AdvisoryBeforeCall ==
    (Invoked /\ CheckFails /\ ~unauthorized_errors)
    => call.warned /\ call.calls = 1

\* The call returned a substitute for a failure.
Suppressed ==
    /\ Done /\ call.op \in AllOps /\ call.out.how = "return"
    /\ ~(ClientSucceeded /\ ~EmptyListing /\ ~NotAnArray)
    /\ call.op \in AsyncOps

\* The guard part of C18: with unauthorized_errors and suppression both on, a
\* protected operation invoked without the needed session raises the
\* unauthorized error.
GuardRejectionRaised ==
    (Invoked /\ CheckFails /\ unauthorized_errors /\ return_null_on_error)
    => /\ Done
       /\ call.out \in {Throw(AdminOperationError),
                        Throw(ProtectedOperationError)}

\* C18: a guard rejection is never suppressed, and only remote errors and
\* empty-result errors are subject to suppression.
C18_GuardNeverSuppressed ==
    /\ GuardRejectionRaised
    /\ Suppressed => (call.remote.how = "throw" \/ EmptyListing)

NoneLevelOps ==
    {"authWithPassword", "authWithOAuth2", "adminAuthWithPassword",
     "requestVerification", "confirmVerification", "requestPasswordReset",
     "confirmPasswordReset", "adminRequestPasswordReset",
     "adminConfirmPasswordReset", "listAuthMethods", "getList",
     "getFullList", "getFirstListItem", "getOne", "create", "update",
     "delete", "getHealth"}

\* C20: an operation that needs no credentials always invokes the client,
\* whatever the session and whatever unauthorized_errors.
C20_NoneLevelAlwaysCalls ==
    (Invoked /\ call.op \in NoneLevelOps) => call.calls = 1

\* C20 witness: getOne reached the client with unauthorized_errors on and
\* nobody logged in.
C20_Witness ==
    /\ Done /\ call.op = "getOne" /\ unauthorized_errors
    /\ ~call.pre.isValid /\ call.calls = 1 /\ call.remote.how = "return"

\* The calls whose success writes the session: authenticate,
\* admin-authenticate and the two refresh calls.
SessionWritingOps ==
    {"authWithPassword", "authWithOAuth2", "authRefresh",
     "adminAuthWithPassword", "adminAuthRefresh"}

\* C21: the session changes only by a successful authenticate /
\* admin-authenticate / refresh call or by authClear: after a failed one
\* (error propagated or suppressed) and after every other operation the
\* session flags and token are what they were when the call was made.
C21_SessionFrame ==
    (Done /\ call.op \in AllOps \ {"authClear"}
        /\ ~(call.op \in SessionWritingOps /\ call.remote.how = "return"))
    => authStore = call.pre

\* C21 witness: a logged-in user's authWithPassword failed, the error was
\* suppressed to null, and the session is still the one from before.
C21_Witness ==
    /\ Done /\ call.op = "authWithPassword" /\ call.remote.how = "throw"
    /\ call.out = Return(Null) /\ call.pre.isValid /\ authStore = call.pre

\* The guard statement of the call has been evaluated and nothing after it
\* has happened yet that could write the session.
JustGuarded ==
    /\ Invoked
    /\ call.op \in AdminGuarded \cup UserGuarded
    /\ call.phase = "pending" \/ call.calls = 0 \/ call.op = "downloadBackup"

\* C22: evaluating the guard never changes the session, whether the guard
\* passes, only advises, or rejects.
C22_GuardReadsOnly == JustGuarded => authStore = call.pre

\* C22 witness: a user session, unauthorized_errors on, an admin operation
\* refused: the user session is intact.
C22_Witness ==
    /\ JustGuarded /\ call.op = "getOneCollection" /\ unauthorized_errors
    /\ call.out = Throw(AdminOperationError)
    /\ call.pre.isValid /\ ~call.pre.isAdmin /\ authStore = call.pre

\* C23: a call issues at most one request to the server, and a failed
\* request is never issued again, with or without suppression.
C23_SingleShot ==
    (Invoked /\ call.op \in AllOps)
    => /\ call.requests <= 1
       /\ (Done /\ call.remote.how = "throw") => call.requests = 1

\* C23 witness: getHealth failed under suppression after one request.
C23_Witness ==
    /\ Done /\ call.op = "getHealth" /\ return_null_on_error
    /\ call.remote.how = "throw" /\ call.requests = 1
    /\ call.out = Return(Null)

\* C26: getList treats a successful result as empty exactly when its
\* totalItems is 0: any other result is returned unchanged, even with no
\* items in the page; a result with totalItems 0 is a failure (null under
\* suppression, the no-items error otherwise).
C26_TotalItemsDecides ==
    (Done /\ call.op = "getList" /\ call.remote.how = "return")
    => /\ call.remote.v.a # 0 => call.out = call.remote
       /\ call.remote.v.a = 0
            => call.out = IF return_null_on_error THEN Return(Null)
                          ELSE Throw(NoItemsFoundError)

\* C26 witness: a page past the last one (totalItems 2, no items) came
\* back from getList as it was.
C26_Witness ==
    /\ Done /\ call.op = "getList" /\ call.remote = Return(V("page", 2, 0))
    /\ call.out = call.remote

\* The list-returning operations other than getList and getFullList.
OtherListingOps ==
    {"listExternalAuth", "listBackups", "getLogList", "getLogStats",
     "getCollectionList", "getCollectionFullList", "adminGetList",
     "adminGetFullList"}

\* A successful result without any element.
EmptyResult(v) ==
    \/ v.kind = "list" /\ v.a = 0
    \/ v.kind = "page" /\ (v.a = 0 \/ v.b = 0)

\* C27: the list-returning operations other than getList and getFullList
\* hand an empty successful result to the caller unchanged.
C27_EmptyPolicyOnlyForGetList ==
    (Done /\ call.op \in OtherListingOps /\ call.remote.how = "return"
        /\ EmptyResult(call.remote.v))
    => call.out = call.remote

\* C27 witness: adminGetList and suppression on, the empty page is returned.
C27_Witness ==
    /\ Done /\ call.op = "adminGetList" /\ return_null_on_error
    /\ call.remote = Return(V("page", 0, 0)) /\ call.out = call.remote

\* The two authenticate calls of C24.
AuthenticateOps == {"authWithPassword", "adminAuthWithPassword"}

\* Caller c's authenticate call has settled with success.
Authenticated(c) ==
    /\ inflight[c].op \in AuthenticateOps
    /\ inflight[c].phase = "done"
    /\ inflight[c].remote.how = "return"

\* The calls of the two callers were in flight at the same time.
Overlapped == inflight["a"].after \/ inflight["b"].after

\* Both callers' authenticate calls raced and succeeded, and nothing has
\* written the session since.
RaceOver ==
    /\ Authenticated("a") /\ Authenticated("b")
    /\ Overlapped
    /\ last \in Callers

\* C24: when two authenticate calls were in flight together and both
\* succeeded, the session is the one produced by the call that settled
\* last, whichever was invoked first.
C24_LastSettledWins ==
    RaceOver
    => authStore = StoreSave(authStore, inflight[last].remote.v)

\* C24 witness: a's user login was invoked first, b's admin login second
\* while a was in flight; b settled first, a last: the session is a's.
C24_Witness ==
    /\ RaceOver /\ last = "a"
    /\ ~inflight["a"].after /\ inflight["b"].after
    /\ inflight["a"].op = "authWithPassword"
    /\ inflight["b"].op = "adminAuthWithPassword"
    /\ inflight["a"].remote.v.a # inflight["b"].remote.v.a
    /\ authStore.token = inflight["a"].remote.v.a /\ ~authStore.isAdmin

\* The protected operation of caller c was invoked.
ProtectedInvoked(c) ==
    /\ inflight[c].op \in UserLevelOps \cup AdminLevelOps
    /\ inflight[c].phase # "idle"

\* C25: the guard outcome of a protected operation is decided by the
\* session at the instant of its invocation, read together with the
\* subject id it sends; an operation that passed the guard is neither
\* rejected nor cancelled by a later session change: its outcome is the
\* client's, through the then/catch chain.
C25_GuardSnapshot ==
    \A c \in Callers :
        ProtectedInvoked(c)
        => /\ (inflight[c].calls = 0)
                <=> (unauthorized_errors /\ ~inflight[c].pre.isValid)
           /\ inflight[c].calls = 0
                => /\ inflight[c].phase = "done"
                   /\ inflight[c].out = Throw(ProtectedOperationError)
           /\ inflight[c].calls = 1
                => inflight[c].subject = inflight[c].pre.model
           /\ (inflight[c].calls = 1 /\ inflight[c].phase = "done")
                => /\ inflight[c].remote.how # "none"
                   /\ inflight[c].out =
                        Normalize(inflight[c].op, inflight[c].remote,
                                  return_null_on_error)

\* C25 witness: with unauthorized_errors on and b logged in, a's
\* listExternalAuth passed the guard with b's session and sent its subject
\* id; authClear emptied the session while that call was in flight; the
\* call settled with the client's list.
C25_Witness ==
    /\ unauthorized_errors
    /\ inflight["a"].op = "listExternalAuth"
    /\ inflight["a"].phase = "done" /\ inflight["a"].calls = 1
    /\ inflight["a"].pre.isValid /\ inflight["a"].subject # 0
    /\ Authenticated("b")
    /\ last = "clear" /\ authStore = EmptyStore
    /\ inflight["a"].out = inflight["a"].remote
    /\ inflight["a"].remote.how = "return"

\* The other case of C25: invoked while b's login was in flight, a's
\* listExternalAuth saw the session from before it and was refused,
\* although b is logged in by now.
C25_SeesPreAuthentication ==
    /\ unauthorized_errors
    /\ inflight["a"].op = "listExternalAuth" /\ inflight["a"].after
    /\ inflight["a"].out = Throw(ProtectedOperationError)
    /\ Authenticated("b") /\ authStore.isValid

====
